---- MODULE Spec2Model ----
(***************************************************************************)
(* A model of acsuite 5.2.0 (src/acsuite/__init__.py): eztrim, f2ts,       *)
(* clip_to_timecodes, _negative_to_positive and _check_ordered.            *)
(*                                                                         *)
(* Conventions.                                                            *)
(*   - An Optional[int] is a sequence: <<>> is None, <<i>> is the int i.   *)
(*   - A time in seconds is a record [w, rn, rd]: w + rn/rd seconds with   *)
(*     0 <= rn < rd.  Python computes these values as exact Fractions      *)
(*     (round(10**9 * f / fps), the running sum of frame durations) and    *)
(*     then converts to a double; the model keeps the exact value, which   *)
(*     the double approximates to about 1e-13 s at the sizes used here.    *)
(*   - An exception is a value of the field err ("none": no exception).    *)
(***************************************************************************)
EXTENDS Integers, Sequences, FiniteSets, TLC

VARIABLES
    pc,          \* where the call under way stands
    args,        \* the arguments of the call under way
    ret,         \* what a direct call of a helper returned or raised
    trims,       \* eztrim: trims, reassigned at line 152
    starts,      \* eztrim: starts (start in a one-element list for a single trim)
    ends,        \* eztrim: ends (end in a one-element list for a single trim)
    ordered,     \* eztrim: what _check_ordered returned, <<>> while not called
    cut_ts_s,    \* eztrim: cut_ts_s
    cut_ts_e,    \* eztrim: cut_ts_e
    err,         \* eztrim: the exception leaving it, "none" while there is none
    ran,         \* eztrim: the segments cut so far by the loop of line 204
    trace,       \* eztrim: the calls made so far, in order
    build,       \* clip_to_timecodes: its locals while the loop runs
    cache,       \* the entries of the lru_cache of clip_to_timecodes
    builds,      \* per clip, how often the body of clip_to_timecodes ran
    evicted,     \* per clip, how often its entry was dropped from the cache
    last         \* the last lookup through the cache

ezVars == <<trims, starts, ends, ordered, cut_ts_s, cut_ts_e, err, ran, trace>>
cacheVars == <<cache, builds, evicted, last>>
vars == <<pc, args, ret, ezVars, build, cacheVars>>

---------------------------------------------------------------------------
(* Bounds of the model                                                     *)

\* clip lengths for the direct calls of _negative_to_positive
NormFrames == 2
\* list lengths for the direct calls of _negative_to_positive
NormLen == 2
\* clip lengths for eztrim and for the direct calls of _check_ordered
MaxFrames == 3
\* list lengths for the direct calls of _check_ordered
OrderedLen == 3
\* frame numbers for the direct calls of f2ts on a constant-rate clip
MaxFrameIndex == 9000
\* clip lengths for the direct calls of f2ts on a variable-rate clip
MaxVfrFrames == 3
\* clip lengths for the runs of clip_to_timecodes
MaxBuildFrames == 24
\* the clips of the process that looks timestamps up through the cache
NumClips == 129
\* the clips that process looks up more than once
HotClips == {1}
\* the lengths of a list given to eztrim as trims: a list of one trim is
\* treated as that trim (line 152), and two trims is the least with adjacent ones
TrimsLens == {0, 1, 2}

None == <<>>
Some(i) == <<i>>

\* the Optional[int] values tried against a clip of n frames: None, and every
\* int from one below -n to one above n
OptInts(n) == {None} \cup {Some(i) : i \in (0 - n - 1)..(n + 1)}

\* all lists of length 0..k over the set S
RECURSIVE ListsUpTo(_, _)
ListsUpTo(S, k) ==
    IF k = 0 THEN {<<>>}
    ELSE LET shorter == ListsUpTo(S, k - 1)
         IN  shorter \cup {Append(l, x) : l \in {m \in shorter : Len(m) = k - 1}, x \in S}

---------------------------------------------------------------------------
(* Python primitives                                                       *)

\* abs(i)
MutAbs(i) == i
Abs(i) == IF i < 0 THEN 0 - i ELSE i

\* (i or 0) for an Optional[int]: None and 0 both give 0
OrZero(x) == IF x = None THEN 0 ELSE x[1]

\* all(bs) for the list bs of the values the generator yields: a scan that
\* stops at the first False
RECURSIVE All(_)
All(bs) ==
    IF Len(bs) = 0 THEN TRUE
    ELSE IF ~Head(bs) THEN FALSE
    ELSE All(Tail(bs))

---------------------------------------------------------------------------
(* _negative_to_positive (lines 274-300)                                   *)

\* the index conversions of lines 283 and 297-298
PosStart(n, x) == IF x >= 0 THEN x ELSE n + x
MutPosEnd(n, y) == IF y >= 0 THEN y ELSE n + y
PosEnd(n, y) == IF y > 0 THEN y ELSE n + y

\* the single-trim branch, lines 279-283
N2PSingle(num_frames, a0, b0) ==
    LET a == OrZero(a0)
        b == OrZero(b0)
    IN  IF Abs(a) > num_frames \/ Abs(b) > num_frames
        THEN [err |-> "out_of_bounds", val |-> <<>>]
        ELSE [err |-> "none", val |-> <<PosStart(num_frames, a), PosEnd(num_frames, b)>>]

\* the bounds test of the list branch, line 291
MutInBounds(num_frames, real_a, real_b) ==
    All([i \in 1..(Len(real_a)) |-> Abs(real_a[i]) <= num_frames])
InBounds(num_frames, real_a, real_b) ==
    /\ All([i \in 1..(Len(real_a)) |-> Abs(real_a[i]) <= num_frames])
    /\ All([i \in 1..(Len(real_b)) |-> Abs(real_b[i]) <= num_frames])

\* the list branch, lines 285-300
N2PBatch(num_frames, a, b) ==
    IF Len(a) # Len(b)
    THEN [err |-> "length_mismatch", val |-> <<>>]
    ELSE LET real_a == [i \in 1..Len(a) |-> OrZero(a[i])]
             real_b == [i \in 1..Len(b) |-> OrZero(b[i])]
         IN  IF ~InBounds(num_frames, real_a, real_b)
             THEN [err |-> "out_of_bounds", val |-> <<>>]
             ELSE IF /\ All([i \in 1..(Len(real_a)) |-> real_a[i] >= 0])
                     /\ All([i \in 1..(Len(real_b)) |-> real_b[i] > 0])
             THEN [err |-> "none", val |-> <<real_a, real_b>>]
             ELSE [err |-> "none",
                   val |-> << [i \in 1..Len(real_a) |-> PosStart(num_frames, real_a[i])],
                              [i \in 1..Len(real_b) |-> PosEnd(num_frames, real_b[i])] >>]

\* _negative_to_positive: single_trim (line 276) is whether both arguments are
\* an Optional[int] rather than lists
NegativeToPositive(num_frames, single_trim, a, b) ==
    IF single_trim THEN N2PSingle(num_frames, a, b) ELSE N2PBatch(num_frames, a, b)

---------------------------------------------------------------------------
(* _check_ordered (lines 303-309)                                          *)

MutCheckOrdered(starts_, ends_) ==
    IF ~All([i \in 1..(Len(starts_)) |-> starts_[i] < ends_[i]])
    THEN FALSE
    ELSE IF ~All([i \in 1..(Len(starts_) - 1) |-> ends_[i] <= starts_[i + 1]])
    THEN FALSE
    ELSE TRUE
CheckOrdered(starts_, ends_) ==
    IF ~All([i \in 1..(Len(starts_)) |-> starts_[i] < ends_[i]])
    THEN FALSE
    ELSE IF ~All([i \in 1..(Len(starts_) - 1) |-> ends_[i] < starts_[i + 1]])
    THEN FALSE
    ELSE TRUE

---------------------------------------------------------------------------
(* Exact arithmetic: fractions.Fraction and round()                        *)

Nano == 10 ^ 9

RECURSIVE GCD(_, _)
GCD(x, y) == IF y = 0 THEN x ELSE GCD(y, x % y)

\* fractions.Fraction(n, d), in lowest terms, as <<numerator, denominator>>
Fraction(n, d) == LET g == GCD(n, d) IN <<n \div g, d \div g>>

\* Fraction.__add__
FracAdd(x, y) ==
    LET g == GCD(x[2], y[2])
    IN  Fraction(x[1] * (y[2] \div g) + y[1] * (x[2] \div g), (x[2] \div g) * y[2])

\* round(p / q) for p >= 0, q > 0: to the nearest integer, a tie to the even one
RoundHalfEven(p, q) ==
    LET lo == p \div q
        r  == p % q
    IN  IF 2 * r < q THEN lo
        ELSE IF 2 * r > q THEN lo + 1
        ELSE IF lo % 2 = 0 THEN lo ELSE lo + 1

\* x * 1000^k / d for 0 <= x < d as [q, r]: quotient and remainder, by long
\* division in base 1000 (so that no intermediate value leaves 32 bits)
RECURSIVE LongDiv(_, _, _)
LongDiv(x, d, k) ==
    IF k = 0 THEN [q |-> 0, r |-> x]
    ELSE LET prev == LongDiv(x, d, k - 1)
         IN  [q |-> prev.q * 1000 + (prev.r * 1000) \div d,
              r |-> (prev.r * 1000) % d]

\* rn * 10^p / rd for 0 <= rn < rd and p in {0, 3, 6, 9}, as [q, r, d]: the
\* value is q + r/d with 0 <= r < d
Scaled(rn, rd, p) ==
    IF rd % (10 ^ p) = 0
    THEN LET d == rd \div (10 ^ p) IN [q |-> rn \div d, r |-> rn % d, d |-> d]
    ELSE LET l == LongDiv(rn, rd, p \div 3) IN [q |-> l.q, r |-> l.r, d |-> rd]

---------------------------------------------------------------------------
(* The clip (vs.VideoNode) and the timecodes v2 file                       *)

\* src_clip.fps of a variable-frame-rate clip: Fraction(0, 1)
VfrFps == <<0, 1>>

\* frame.props['_DurationNum'], frame.props['_DurationDen'] of frame i (from 1)
\* of a clip: a constant-rate clip has frames of 1/fps; a variable-rate clip
\* has one of two patterns
FrameDuration(clip, i) ==
    IF clip.fps # VfrFps THEN <<clip.fps[2], clip.fps[1]>>
    ELSE IF clip.durs = "even" THEN <<1, 24>>
    ELSE IF i % 2 = 1 THEN <<1001, 24000>> ELSE <<1001, 30000>>

\* src_clip.frames(): the frames in order, each by its duration
Frames(clip) == [i \in 1..clip.num_frames |-> FrameDuration(clip, i)]

---------------------------------------------------------------------------
(* clip_to_timecodes (lines 254-267)                                       *)

\* deque.append on a deque(maxlen=maxlen): a full deque drops its first entry
DequeAppend(d, x, maxlen) ==
    IF Len(d) >= maxlen THEN Append(Tail(d), x) ELSE Append(d, x)

\* lines 257-259: the locals before the loop
BuildStart ==
    [timecodes |-> << <<0, 1>> >>, curr_time |-> <<0, 1>>, init_percentage |-> 0,
     printed |-> <<>>]

\* line 263, as written and with len(timecodes) - 1 frames counted
PercentageDone(timecodes, num_frames) == RoundHalfEven(100 * Len(timecodes), num_frames)

\* lines 261-266: the loop body for one frame; printed collects the
\* percentages of the print calls
BuildStep(b, frame, num_frames) ==
    LET curr_time == FracAdd(b.curr_time, Fraction(frame[1], frame[2]))
        timecodes == DequeAppend(b.timecodes, curr_time, num_frames + 1)
        percentage_done == PercentageDone(timecodes, num_frames)
        report == percentage_done % 10 = 0 /\ percentage_done # b.init_percentage
    IN  [timecodes |-> timecodes,
         curr_time |-> curr_time,
         init_percentage |-> IF report THEN percentage_done ELSE b.init_percentage,
         printed |-> IF report THEN Append(b.printed, percentage_done) ELSE b.printed]

\* the loop of line 260 over frames k..Len(frames)
RECURSIVE BuildLoop(_, _, _, _)
BuildLoop(b, frames, k, num_frames) ==
    IF k > Len(frames) THEN b
    ELSE BuildLoop(BuildStep(b, frames[k], num_frames), frames, k + 1, num_frames)

\* the body of clip_to_timecodes: the locals at line 267
ClipToTimecodes(src_clip) == BuildLoop(BuildStart, Frames(src_clip), 1, src_clip.num_frames)

---------------------------------------------------------------------------
(* functools.lru_cache around clip_to_timecodes (line 254)                 *)

\* maxsize of functools.lru_cache used without arguments
CacheMaxSize == 128

\* the cache is the list of its entries [key, result], least recently used first
CacheIndex(entries, key) ==
    IF \E i \in 1..Len(entries) : entries[i].key = key
    THEN CHOOSE i \in 1..Len(entries) : entries[i].key = key
    ELSE 0

Without(seq, i) == [j \in 1..(Len(seq) - 1) |-> IF j < i THEN seq[j] ELSE seq[j + 1]]

\* one call clip_to_timecodes(src_clip) through the cache: a hit returns the
\* stored result and makes the entry the most recent; a miss runs the body,
\* stores the result and, in a full cache, drops the least recently used entry
MutLruCall(entries, src_clip) ==
    LET b == ClipToTimecodes(src_clip)
    IN  [hit |-> FALSE, result |-> b.timecodes, printed |-> b.printed, cache |-> entries]
LruCall(entries, src_clip) ==
    LET i == CacheIndex(entries, src_clip)
    IN  IF i # 0
        THEN [hit |-> TRUE, result |-> entries[i].result, printed |-> <<>>,
              cache |-> Append(Without(entries, i), entries[i])]
        ELSE LET b == ClipToTimecodes(src_clip)
                 entry == [key |-> src_clip, result |-> b.timecodes]
             IN  [hit |-> FALSE, result |-> b.timecodes, printed |-> b.printed,
                  cache |-> IF Len(entries) >= CacheMaxSize
                            THEN Append(Tail(entries), entry)
                            ELSE Append(entries, entry)]

---------------------------------------------------------------------------
(* f2ts (lines 220-251)                                                    *)

\* line 230-231: round(10 ** 9 * f * fps ** -1) / 10 ** 9 seconds
CfrSeconds(f, fps) ==
    LET total == f * fps[2]
        w  == total \div fps[1]
        l  == LongDiv(total % fps[1], fps[1], 3)
        up == \/ 2 * l.r > fps[1]
              \/ 2 * l.r = fps[1] /\ l.q % 2 = 1
        ns == IF up THEN l.q + 1 ELSE l.q
    IN  IF ns = Nano THEN [w |-> w + 1, rn |-> 0, rd |-> Nano]
        ELSE [w |-> w, rn |-> ns, rd |-> Nano]

\* line 234: the lines after the first, each float(x) / 1000
ReadTimecodes(file) ==
    LET body == Tail(file.lines)
    IN  [i \in 1..Len(body) |->
            [w |-> body[i].ms \div 1000, rn |-> body[i].ms % 1000, rd |-> 1000]]

\* an entry of the table of clip_to_timecodes, float(curr_time), in seconds
TableSeconds(x) == [w |-> x[1] \div x[2], rn |-> x[1] % x[2], rd |-> x[2]]

\* lines 239-251: the fields of the returned string HH:MM:SS[.fraction];
\* sec is the seconds field before the point and frac the digits after it
FormatTimestamp(s, precision) ==
    LET m    == s.w \div 60
        secs == s.w % 60
        x    == Scaled(s.rn, s.rd, precision)
        \* round(s) of line 245 takes a tie to the even integer; the float
        \* formats of lines 247-251 round the double, where an exact decimal
        \* tie is taken to the even digit here
        odd  == (IF precision = 0 THEN secs + x.q ELSE x.q) % 2 = 1
        up   == \/ 2 * x.r > x.d
                \/ 2 * x.r = x.d /\ odd
        q    == IF up THEN x.q + 1 ELSE x.q
        carry == q = 10 ^ precision
    IN  [h |-> m \div 60, m |-> m % 60,
         sec |-> IF carry THEN secs + 1 ELSE secs,
         frac |-> IF carry THEN 0 ELSE q,
         digits |-> precision]

\* lines 229, 233 and 236: which of the three time sources f2ts reads
MutTimeSource(src_clip, timecodes_file) ==
    IF timecodes_file.given THEN "file"
    ELSE IF src_clip.fps # VfrFps THEN "rate"
    ELSE "table"
TimeSource(src_clip, timecodes_file) ==
    IF src_clip.fps # VfrFps THEN "rate"
    ELSE IF timecodes_file.given THEN "file"
    ELSE "table"

NoTimestamp == [h |-> 0, m |-> 0, sec |-> 0, frac |-> 0, digits |-> 0]

\* f2ts(f, precision=..., timecodes_file=..., src_clip=...) with the cache of
\* clip_to_timecodes as it stands: the outcome, which time source was read
\* (source), whether the file was opened and whether clip_to_timecodes was
\* called, and the cache afterwards.  Index f of a Python list or deque of
\* length n with 0 <= f is an IndexError when f >= n
F2ts(f, precision, timecodes_file, src_clip, entries) ==
    LET fail(e, src, c) ==
            [err |-> e, ts |-> NoTimestamp, source |-> src, cache |-> c,
             printed |-> <<>>, built |-> FALSE]
    IN
    IF precision \notin {0, 3, 6, 9}
    THEN fail("precision", "none", entries)
    ELSE IF TimeSource(src_clip, timecodes_file) = "rate"
    THEN [err |-> "none", ts |-> FormatTimestamp(CfrSeconds(f, src_clip.fps), precision),
          source |-> "rate", cache |-> entries, printed |-> <<>>, built |-> FALSE]
    ELSE IF TimeSource(src_clip, timecodes_file) = "file"
    THEN LET timecodes == ReadTimecodes(timecodes_file)
         IN  IF f >= Len(timecodes)
             THEN fail("IndexError", "file", entries)
             ELSE [err |-> "none", ts |-> FormatTimestamp(timecodes[f + 1], precision),
                   source |-> "file", cache |-> entries, printed |-> <<>>, built |-> FALSE]
    ELSE LET c == LruCall(entries, src_clip)
         IN  IF f >= Len(c.result)
             THEN [err |-> "IndexError", ts |-> NoTimestamp, source |-> "table",
                   cache |-> c.cache, printed |-> c.printed, built |-> ~c.hit]
             ELSE [err |-> "none",
                   ts |-> FormatTimestamp(TableSeconds(c.result[f + 1]), precision),
                   source |-> "table", cache |-> c.cache, printed |-> c.printed,
                   built |-> ~c.hit]

---------------------------------------------------------------------------
(* Values shared by the specifications                                     *)

\* a timecodes_file argument of None
NoFile == [given |-> FALSE, lines |-> <<>>]

\* a timecodes v2 file: a header line, then k lines of whole milliseconds,
\* the start times of frames of 1001/24000 s
TimecodesFile(k) ==
    [given |-> TRUE,
     lines |-> [i \in 1..(k + 1) |->
                  IF i = 1 THEN [header |-> TRUE, ms |-> 0]
                  ELSE [header |-> FALSE, ms |-> ((i - 2) * 1001) \div 24]]]

\* a constant-rate clip of n frames at 24000/1001 fps, and a variable-rate one
CfrClip(i, n, fps) == [id |-> i, num_frames |-> n, fps |-> fps, durs |-> "even"]
VfrClip(i, n, d) == [id |-> i, num_frames |-> n, fps |-> VfrFps, durs |-> d]

\* the variables a specification does not use
IdleEz ==
    /\ trims = <<>> /\ starts = <<>> /\ ends = <<>> /\ ordered = <<>>
    /\ cut_ts_s = <<>> /\ cut_ts_e = <<>> /\ err = "none" /\ ran = 0 /\ trace = <<>>
IdleCache == cache = <<>> /\ builds = <<>> /\ evicted = <<>> /\ last = <<>>

---------------------------------------------------------------------------
(* SpecN2P: direct calls of _negative_to_positive                          *)

InitN2P ==
    /\ pc = "call"
    /\ \E n \in 1..NormFrames :
          \/ \E a \in OptInts(n), b \in OptInts(n) :
                args = [num_frames |-> n, single |-> TRUE, a |-> a, b |-> b]
          \/ \E a \in ListsUpTo(OptInts(n), NormLen), b \in ListsUpTo(OptInts(n), NormLen) :
                args = [num_frames |-> n, single |-> FALSE, a |-> a, b |-> b]
    /\ ret = <<>>
    /\ build = <<>>
    /\ IdleEz
    /\ IdleCache

CallN2P ==
    /\ pc = "call"
    /\ ret' = NegativeToPositive(args.num_frames, args.single, args.a, args.b)
    /\ pc' = "done"
    /\ UNCHANGED <<args, ezVars, build, cacheVars>>

NextN2P == CallN2P

SpecN2P == InitN2P /\ [][NextN2P]_vars

---------------------------------------------------------------------------
(* Spec: one call of eztrim, or one direct call of _check_ordered          *)

\* the (start, end) pairs tried against a clip of n frames
TrimPairs(n) == OptInts(n) \X OptInts(n)

\* what the checks of lines 90-142 can find in the file system, in the
\* order of the code; "ok" is that no check fails, and each other finding is
\* the exception raised for it
Environment == {"ok", "audio_missing", "outfile_exists", "ffmpeg_path_missing",
                "ffmpeg_not_in_path", "ffmpeg_not_working", "timecodes_missing"}

\* whether subprocess.run(['ffmpeg', '-version']) of line 136 started the
\* tool before the finding: only with ffmpeg_path given, and not when an
\* earlier check raised or the executable is not in PATH
ProbeRan(env, ffmpeg_path) ==
    ffmpeg_path /\ env \in {"ok", "ffmpeg_not_working", "timecodes_missing"}

Init ==
    /\ \/ /\ pc = "eztrim"
          /\ \E n \in 1..MaxFrames :
             \E source \in {"rate", "file", "table"}, run \in {"debug", "path", "which"} :
             \E tr \in [tuple : {TRUE}, items : {<<p>> : p \in TrimPairs(n)}]
                       \cup [tuple : {FALSE},
                             items : UNION {[1..k -> TrimPairs(n)] : k \in TrimsLens}] :
                args = [clip |-> IF source = "rate" THEN CfrClip(1, n, <<24000, 1001>>)
                                 ELSE VfrClip(1, n, "mixed"),
                        trims |-> tr,
                        timecodes_file |-> IF source = "file" THEN TimecodesFile(n) ELSE NoFile,
                        debug |-> run = "debug",
                        ffmpeg_path |-> run = "path"]
       \/ /\ pc = "_check_ordered"
          /\ \E n \in 1..MaxFrames : \E len \in 0..OrderedLen :
             \E s \in [1..len -> 0..n], e \in [1..len -> 0..n] :
                args = [starts |-> s, ends |-> e]
    /\ ret = <<>>
    /\ build = <<>>
    /\ IdleEz
    /\ IdleCache

\* lines 87-168: the checks of the files and of the shape of trims.  The
\* trims modelled are well shaped, so of lines 145-167 only line 152 acts
CheckArguments ==
    /\ pc = "eztrim"
    /\ \E env \in Environment :
          /\ args.debug => env = "ok"
          /\ env \in {"ffmpeg_path_missing", "ffmpeg_not_in_path", "ffmpeg_not_working"}
                => args.ffmpeg_path
          /\ env = "timecodes_missing" => args.timecodes_file.given
          /\ trace' = IF ~args.debug /\ ProbeRan(env, args.ffmpeg_path)
                      THEN Append(trace, "probe") ELSE trace
          /\ IF env = "ok"
             THEN /\ pc' = "normalize"
                  /\ err' = err
             ELSE /\ pc' = "raised"
                  /\ err' = env
    /\ trims' = IF ~args.trims.tuple /\ Len(args.trims.items) = 1
                THEN [tuple |-> TRUE, items |-> args.trims.items]
                ELSE args.trims
    /\ UNCHANGED <<args, ret, starts, ends, ordered, cut_ts_s, cut_ts_e, ran, build, cacheVars>>

\* lines 170-174 and 182: the call of _negative_to_positive
Normalize ==
    /\ pc = "normalize"
    /\ LET num_frames == args.clip.num_frames
           r == IF trims.tuple
                THEN NegativeToPositive(num_frames, TRUE, trims.items[1][1], trims.items[1][2])
                ELSE NegativeToPositive(num_frames, FALSE,
                                        [i \in 1..Len(trims.items) |-> trims.items[i][1]],
                                        [i \in 1..Len(trims.items) |-> trims.items[i][2]])
       IN  /\ trace' = Append(trace, "_negative_to_positive")
           /\ IF r.err # "none"
              THEN /\ pc' = "raised"
                   /\ err' = r.err
                   /\ UNCHANGED <<starts, ends>>
              ELSE /\ pc' = "validate"
                   /\ err' = err
                   /\ starts' = IF trims.tuple THEN <<r.val[1]>> ELSE r.val[1]
                   /\ ends' = IF trims.tuple THEN <<r.val[2]>> ELSE r.val[2]
    /\ UNCHANGED <<args, ret, trims, ordered, cut_ts_s, cut_ts_e, ran, build, cacheVars>>

\* lines 175-176, and 183 with 186-187: the test that the trims are logical
Validate ==
    /\ pc = "validate"
    /\ LET ok == IF trims.tuple THEN ~(ends[1] <= starts[1]) ELSE CheckOrdered(starts, ends)
       IN  /\ ordered' = IF trims.tuple THEN ordered ELSE <<ok>>
           /\ trace' = IF trims.tuple THEN trace ELSE Append(trace, "_check_ordered")
           /\ IF ok
              THEN /\ pc' = IF Len(starts) = 0 THEN "return" ELSE "translate"
                   /\ err' = err
              ELSE /\ pc' = "raised"
                   /\ err' = "illogical"
    /\ UNCHANGED <<args, ret, trims, starts, ends, cut_ts_s, cut_ts_e, ran, build, cacheVars>>

\* lines 177-178 and 184-185: one call ts(f) of the list building cut_ts_s
\* and then cut_ts_e; ts is f2ts with precision 3 (its default)
Translate ==
    /\ pc = "translate"
    /\ LET of_start == Len(cut_ts_s) < Len(starts)
           f == IF of_start THEN starts[Len(cut_ts_s) + 1] ELSE ends[Len(cut_ts_e) + 1]
       IN  \E r \in {F2ts(f, 3, args.timecodes_file, args.clip, cache)} :
           /\ trace' = IF r.built THEN trace \o <<"f2ts", "clip_to_timecodes">>
                       ELSE Append(trace, "f2ts")
           /\ cache' = r.cache
           /\ IF r.err # "none"
              THEN /\ pc' = "raised"
                   /\ err' = r.err
                   /\ UNCHANGED <<cut_ts_s, cut_ts_e>>
              ELSE /\ err' = err
                   /\ cut_ts_s' = IF of_start THEN Append(cut_ts_s, r.ts) ELSE cut_ts_s
                   /\ cut_ts_e' = IF of_start THEN cut_ts_e ELSE Append(cut_ts_e, r.ts)
                   /\ pc' = IF ~of_start /\ Len(cut_ts_e) + 1 = Len(ends)
                            THEN "return" ELSE "translate"
    /\ UNCHANGED <<args, ret, trims, starts, ends, ordered, ran, build, builds, evicted, last>>

\* lines 179-180 and 188-189: with debug the boundaries and timestamps are returned
ReturnDebug ==
    /\ pc = "return"
    /\ args.debug
    /\ pc' = "returned"
    /\ UNCHANGED <<args, ret, ezVars, build, cacheVars>>

MutRunSingle ==
    /\ pc \in {"translate", "return"}
    /\ ~args.debug
    /\ Len(starts) = 1
    /\ trace' = Append(trace, "run")
    /\ pc' = "returned"
    /\ UNCHANGED <<args, ret, trims, starts, ends, ordered, cut_ts_s, cut_ts_e, err, ran,
                   build, cacheVars>>

\* lines 193-196: one trim is cut by one run of the tool
RunSingle ==
    /\ pc = "return"
    /\ ~args.debug
    /\ Len(cut_ts_s) = 1
    /\ trace' = Append(trace, "run")
    /\ pc' = "returned"
    /\ UNCHANGED <<args, ret, trims, starts, ends, ordered, cut_ts_s, cut_ts_e, err, ran,
                   build, cacheVars>>

\* lines 199-200: the list of segments of an earlier run is in the way
ConcatFileExists ==
    /\ pc = "return"
    /\ ~args.debug
    /\ Len(cut_ts_s) # 1
    /\ ran = 0
    /\ err' = "concat_file_exists"
    /\ pc' = "raised"
    /\ UNCHANGED <<args, ret, trims, starts, ends, ordered, cut_ts_s, cut_ts_e, ran, trace,
                   build, cacheVars>>

\* lines 204-209: one turn of the loop, which cuts one segment
RunSegment ==
    /\ pc = "return"
    /\ ~args.debug
    /\ Len(cut_ts_s) # 1
    /\ ran < Len(cut_ts_s)
    /\ ran' = ran + 1
    /\ trace' = Append(trace, "run")
    /\ UNCHANGED <<pc, args, ret, trims, starts, ends, ordered, cut_ts_s, cut_ts_e, err,
                   build, cacheVars>>

\* lines 211-217: the run that joins the segments, and the clean-up
RunConcat ==
    /\ pc = "return"
    /\ ~args.debug
    /\ Len(cut_ts_s) # 1
    /\ ran = Len(cut_ts_s)
    /\ trace' = Append(trace, "run")
    /\ pc' = "returned"
    /\ UNCHANGED <<args, ret, trims, starts, ends, ordered, cut_ts_s, cut_ts_e, err, ran,
                   build, cacheVars>>

\* a direct call _check_ordered(starts, ends)
CallCheckOrdered ==
    /\ pc = "_check_ordered"
    /\ ret' = <<CheckOrdered(args.starts, args.ends)>>
    /\ pc' = "done"
    /\ UNCHANGED <<args, ezVars, build, cacheVars>>

Next ==
    \/ CheckArguments
    \/ Normalize
    \/ Validate
    \/ Translate
    \/ ReturnDebug
    \/ RunSingle
    \/ ConcatFileExists
    \/ RunSegment
    \/ RunConcat
    \/ CallCheckOrdered

Spec == Init /\ [][Next]_vars

---------------------------------------------------------------------------
(* SpecF2ts: direct calls of f2ts, the cache of clip_to_timecodes empty    *)

\* the constant frame rates tried
Rates == {<<2, 1>>, <<24000, 1001>>, <<30000, 1001>>}

\* the precisions tried: the four f2ts accepts and one it refuses
Precisions == {0, 3, 4, 6, 9}

InitF2ts ==
    /\ pc = "call"
    /\ \E precision \in Precisions :
          \/ \E fps \in Rates, f \in 0..MaxFrameIndex,
                file \in {NoFile, TimecodesFile(MaxVfrFrames)} :
                args = [f |-> f, precision |-> precision, timecodes_file |-> file,
                        src_clip |-> CfrClip(1, MaxVfrFrames, fps)]
          \/ \E n \in 1..MaxVfrFrames, d \in {"even", "mixed"} :
             \E f \in 0..(n + 1), file \in {NoFile, TimecodesFile(n), TimecodesFile(n + 1)} :
                args = [f |-> f, precision |-> precision, timecodes_file |-> file,
                        src_clip |-> VfrClip(1, n, d)]
    /\ ret = <<>>
    /\ build = <<>>
    /\ IdleEz
    /\ IdleCache

CallF2ts ==
    /\ pc = "call"
    /\ \E r \in {F2ts(args.f, args.precision, args.timecodes_file, args.src_clip, cache)} :
           /\ ret' = [err |-> r.err, ts |-> r.ts, source |-> r.source, built |-> r.built,
                      printed |-> r.printed]
           /\ cache' = r.cache
    /\ pc' = "done"
    /\ UNCHANGED <<args, ezVars, build, builds, evicted, last>>

NextF2ts == CallF2ts

SpecF2ts == InitF2ts /\ [][NextF2ts]_vars

---------------------------------------------------------------------------
(* SpecBuild: one run of the body of clip_to_timecodes, frame by frame     *)

InitBuild ==
    /\ pc = "call"
    /\ \E n \in 1..MaxBuildFrames, d \in {"even", "mixed"} :
          args = [src_clip |-> VfrClip(1, n, d)]
    /\ ret = <<>>
    /\ build = <<>>
    /\ IdleEz
    /\ IdleCache

\* lines 257-260: the locals are set and the iteration of the frames starts;
\* next is the number of the frame the iterator yields next
BuildBegin ==
    /\ pc = "call"
    /\ build' = [locals |-> BuildStart, next |-> 1]
    /\ pc' = "loop"
    /\ UNCHANGED <<args, ret, ezVars, cacheVars>>

\* lines 260-266: one frame
BuildFrame ==
    /\ pc = "loop"
    /\ build.next <= args.src_clip.num_frames
    /\ build' = [locals |-> BuildStep(build.locals, Frames(args.src_clip)[build.next],
                                      args.src_clip.num_frames),
                 next |-> build.next + 1]
    /\ UNCHANGED <<pc, args, ret, ezVars, cacheVars>>

\* line 267
BuildReturn ==
    /\ pc = "loop"
    /\ build.next > args.src_clip.num_frames
    /\ ret' = build.locals.timecodes
    /\ pc' = "done"
    /\ UNCHANGED <<args, build, ezVars, cacheVars>>

NextBuild == BuildBegin \/ BuildFrame \/ BuildReturn

SpecBuild == InitBuild /\ [][NextBuild]_vars

---------------------------------------------------------------------------
(* SpecCache: a process that looks timestamps of variable-rate clips up    *)
(* through f2ts, one clip after the other                                  *)

\* clip i of the process: clips are told apart by identity alone
ProcessClip(i) == VfrClip(i, 1, "even")

\* the clips looked up so far are 1..Seen
Seen == Cardinality({i \in 1..NumClips : builds[i] > 0})

InitCache ==
    /\ pc = "idle"
    /\ args = <<>>
    /\ ret = <<>>
    /\ build = <<>>
    /\ IdleEz
    /\ cache = <<>>
    /\ builds = [i \in 1..NumClips |-> 0]
    /\ evicted = [i \in 1..NumClips |-> 0]
    /\ last = [clip |-> 0, cached |-> FALSE, built |-> FALSE]

\* f2ts(0, src_clip=clip i): the entries of the cache before and after tell
\* which clips were dropped
LookupClip(i) ==
    \E r \in {F2ts(0, 3, NoFile, ProcessClip(i), cache)} :
    \E dropped \in {{cache[j].key.id : j \in 1..Len(cache)}
                    \ {r.cache[j].key.id : j \in 1..Len(r.cache)}} :
        /\ cache' = r.cache
        /\ builds' = [builds EXCEPT ![i] = @ + (IF r.built THEN 1 ELSE 0)]
        /\ evicted' = [j \in 1..NumClips |-> evicted[j] + (IF j \in dropped THEN 1 ELSE 0)]
        /\ last' = [clip |-> i, cached |-> CacheIndex(cache, ProcessClip(i)) # 0,
                    built |-> r.built]
        /\ UNCHANGED <<pc, args, ret, ezVars, build>>

\* a lookup for a clip not seen before
LookupNew ==
    /\ Seen < NumClips
    /\ LookupClip(Seen + 1)

\* a lookup for a clip seen before
LookupAgain ==
    \E i \in HotClips :
        /\ i <= Seen
        /\ LookupClip(i)

NextCache == LookupNew \/ LookupAgain

SpecCache == InitCache /\ [][NextCache]_vars

---------------------------------------------------------------------------
(* The claims                                                              *)

\* the positions of the entry x in a sequence
Positions(seq, x) == {i \in 1..Len(seq) : seq[i] = x}

\* eztrim is past the test that the trims are logical
Validated ==
    \/ pc \in {"translate", "return", "returned"}
    \/ pc = "raised" /\ err \in {"IndexError", "concat_file_exists"}

\* C1: once eztrim has normalized and validated its trims, every range has
\* 0 <= start < end <= num_frames, for a single trim and for a list of trims.
C1_NormalizedRanges ==
    Validated =>
        /\ Len(starts) = Len(ends)
        /\ \A i \in 1..Len(starts) :
              /\ 0 <= starts[i]
              /\ starts[i] < ends[i]
              /\ ends[i] <= args.clip.num_frames

\* a list of two trims with a negative start and an end of None was validated
C1_Witness ==
    /\ pc = "returned"
    /\ ~args.trims.tuple
    /\ Len(starts) = 2
    /\ \E i \in 1..2 : OrZero(args.trims.items[i][1]) < 0
    /\ \E i \in 1..2 : args.trims.items[i][2] = None

\* whether an Optional[int] is in bounds for a clip of n frames
InRange(n, x) ==
    LET v == IF x = None THEN 0 ELSE x[1]
    IN  (0 - n) <= v /\ v <= n

\* C2: for in-bounds arguments _negative_to_positive returns
\* start = a if a >= 0 else N + a and end = b if b > 0 else N + b (None as 0),
\* so 0 <= a < b <= N comes back unchanged, a start of -k gives N - k and an
\* end of 0 or None gives N; on lists of equal length it returns, element by
\* element, what it returns for each pair alone.
C2_Conversion ==
    pc = "done" =>
        LET n == args.num_frames IN
        IF args.single
        THEN (InRange(n, args.a) /\ InRange(n, args.b)) =>
                LET a == OrZero(args.a)
                    b == OrZero(args.b)
                IN  /\ ret.err = "none"
                    /\ ret.val[1] = (IF a >= 0 THEN a ELSE n + a)
                    /\ ret.val[2] = (IF b > 0 THEN b ELSE n + b)
                    /\ (0 <= a /\ a < b) => ret.val = <<a, b>>
                    /\ a < 0 => ret.val[1] = n - (0 - a)
                    /\ b = 0 => ret.val[2] = n
        ELSE (/\ Len(args.a) = Len(args.b)
              /\ \A i \in 1..Len(args.a) : InRange(n, args.a[i]) /\ InRange(n, args.b[i])) =>
                /\ ret.err = "none"
                /\ Len(ret.val[1]) = Len(args.a)
                /\ Len(ret.val[2]) = Len(args.b)
                /\ \A i \in 1..Len(args.a) :
                      <<ret.val[1][i], ret.val[2][i]>> = N2PSingle(n, args.a[i], args.b[i]).val

\* two in-bounds lists of two, with a negative start and an end of None,
\* were converted
C2_Witness ==
    /\ pc = "done"
    /\ ~args.single
    /\ Len(args.a) = 2
    /\ ret.err = "none"
    /\ \E i \in 1..2 : OrZero(args.a[i]) < 0
    /\ \E i \in 1..2 : args.b[i] = None

\* whether some argument of the call is out of bounds
SomeOutOfRange ==
    LET n == args.num_frames IN
    IF args.single THEN ~InRange(n, args.a) \/ ~InRange(n, args.b)
    ELSE \/ \E i \in 1..Len(args.a) : ~InRange(n, args.a[i])
         \/ \E i \in 1..Len(args.b) : ~InRange(n, args.b[i])

\* C3 as stated: _negative_to_positive raises the out-of-range error, with
\* no result, whenever some element of either argument has abs > N; it does
\* not raise for in-bounds arguments of equal length; and lists of different
\* lengths raise the length-mismatch error.
C3_AsStated ==
    pc = "done" =>
        /\ SomeOutOfRange => ret.err = "out_of_bounds" /\ ret.val = <<>>
        /\ (~SomeOutOfRange /\ (args.single \/ Len(args.a) = Len(args.b))) => ret.err = "none"
        /\ (~args.single /\ Len(args.a) # Len(args.b)) => ret.err = "length_mismatch"

\* C3 as amended: lists of different lengths raise the length-mismatch error
\* whatever their elements; otherwise (two Optional[int]s, or lists of equal
\* length) the out-of-range error is raised, with no result, exactly when
\* some element has abs > N, and nothing is raised when none has.
C3_LengthFirst ==
    pc = "done" =>
        IF ~args.single /\ Len(args.a) # Len(args.b)
        THEN ret.err = "length_mismatch" /\ ret.val = <<>>
        ELSE IF SomeOutOfRange
        THEN ret.err = "out_of_bounds" /\ ret.val = <<>>
        ELSE ret.err = "none" /\ ret.val # <<>>

\* lists of different lengths, one with an element out of bounds
C3_Witness ==
    /\ pc = "done"
    /\ ~args.single
    /\ Len(args.a) # Len(args.b)
    /\ SomeOutOfRange
    /\ ret.err = "length_mismatch"

\* what C4 says _check_ordered returns
Ordered(s, e) ==
    /\ \A i \in 1..Len(s) : s[i] < e[i]
    /\ \A i \in 1..(Len(s) - 1) : e[i] < s[i + 1]

\* C4: _check_ordered returns True exactly when each start is below its end
\* and each end is below the next start (touching ranges are refused, one
\* non-empty range is accepted), and eztrim, given a list of trims, raises
\* the error of illogical trims exactly when it returned False.
C4_CheckOrdered ==
    /\ pc = "done" => ret[1] = Ordered(args.starts, args.ends)
    /\ ordered # <<>> =>
          /\ ordered[1] = Ordered(starts, ends)
          /\ ordered[1] = FALSE <=> (pc = "raised" /\ err = "illogical")

\* eztrim refused two trims that touch, each of them non-empty
C4_Witness ==
    /\ pc = "raised"
    /\ err = "illogical"
    /\ ordered = <<FALSE>>
    /\ Len(starts) = 2
    /\ starts[1] < ends[1]
    /\ ends[1] = starts[2]
    /\ starts[2] < ends[2]

C6_TimeSource ==
    (pc = "done" /\ args.precision \in {0, 3, 6, 9}) =>
        LET fps  == args.src_clip.fps
            file == args.timecodes_file
        IN
        /\ fps # VfrFps =>
              /\ ret = [err |-> "none", source |-> "rate", built |-> FALSE, printed |-> <<>>,
                        ts |-> FormatTimestamp(CfrSeconds(args.f, fps), args.precision)]
              /\ cache = <<>>
              /\ args.f * fps[2] <= 2 =>
                    LET t == CfrSeconds(args.f, fps)
                    IN  t.w * Nano + t.rn = RoundHalfEven(Nano * args.f * fps[2], fps[1])
        /\ (fps = VfrFps /\ file.given) =>
              /\ ret.source = "file"
              /\ ~ret.built
              /\ cache = <<>>
              /\ args.f + 2 <= Len(file.lines) =>
                    LET ms == file.lines[args.f + 2].ms
                    IN  /\ ret.err = "none"
                        /\ ret.ts = FormatTimestamp(
                              [w |-> ms \div 1000, rn |-> ms % 1000, rd |-> 1000],
                              args.precision)
        /\ (fps = VfrFps /\ ~file.given) =>
              /\ ret.source = "table"
              /\ ret.built
              /\ Len(cache) = 1
              /\ cache[1].key = args.src_clip
        /\ ret.built => (fps = VfrFps /\ ~file.given)

\* f2ts was called with a timecodes file on a constant-rate clip
C6_Witness ==
    /\ pc = "done"
    /\ args.precision = 3
    /\ args.src_clip.fps = <<24000, 1001>>
    /\ args.timecodes_file.given
    /\ args.f = 24
    /\ ret.source = "rate"

\* C7 as stated: during a build the printed percentages are among 10, 20,
\* ..., 100, each printed at most once, and when the frames done so far are
\* exactly a multiple of 10% of the clip, that percentage has been printed.
C7_AsStated ==
    pc \in {"loop", "done"} =>
        LET printed == build.locals.printed
            done    == build.next - 1
            n       == args.src_clip.num_frames
        IN  /\ \A i \in 1..Len(printed) : printed[i] \in {10 * j : j \in 1..10}
            /\ \A i, j \in 1..Len(printed) : printed[i] = printed[j] => i = j
            /\ (done > 0 /\ (10 * done) % n = 0) =>
                  \E i \in 1..Len(printed) : printed[i] = (100 * done) \div n

\* C8 as stated: when normalization or validation raises, eztrim has called
\* neither f2ts nor clip_to_timecodes nor the external tool; and the tool is
\* started only after every boundary of every trim was translated.
C8_AsStated ==
    /\ (pc = "raised" /\ err \in {"out_of_bounds", "illogical"}) =>
          \A i \in 1..Len(trace) : trace[i] \notin {"f2ts", "clip_to_timecodes", "run", "probe"}
    /\ \A i \in 1..Len(trace) :
          trace[i] \in {"run", "probe"} =>
              /\ Validated
              /\ Cardinality({j \in Positions(trace, "f2ts") : j < i}) = 2 * Len(starts)

\* C8 as amended: the same, of the runs of the tool that cut or join audio;
\* the one earlier start of the tool is the `ffmpeg -version` probe of line
\* 136, made before normalization when ffmpeg_path is given without debug.
C8_ValidateTranslateRun ==
    /\ (pc = "raised" /\ err \in {"out_of_bounds", "illogical"}) =>
          \A i \in 1..Len(trace) : trace[i] \notin {"f2ts", "clip_to_timecodes", "run"}
    /\ \A i \in 1..Len(trace) :
          /\ trace[i] = "run" =>
                /\ Validated
                /\ Cardinality({j \in Positions(trace, "f2ts") : j < i}) = 2 * Len(starts)
          /\ trace[i] = "probe" => (i = 1 /\ args.ffmpeg_path /\ ~args.debug)
          /\ trace[i] \in {"f2ts", "clip_to_timecodes"} =>
                /\ Validated
                /\ \E j \in 1..(i - 1) : trace[j] = "_negative_to_positive"
                /\ ~trims.tuple => \E j \in 1..(i - 1) : trace[j] = "_check_ordered"

\* validation refused the trims after the probe of the tool and before any
\* translation
C8_Witness ==
    /\ pc = "raised"
    /\ err = "illogical"
    /\ trace = <<"probe", "_negative_to_positive", "_check_ordered">>

\* C9 as stated: on a variable-rate clip of N frames every f in 0..N is
\* translated without an IndexError, from the table of clip_to_timecodes and
\* from a timecodes file of one line per frame after its header.
C9_AsStated ==
    (/\ pc = "done"
     /\ args.precision \in {0, 3, 6, 9}
     /\ args.src_clip.fps = VfrFps
     /\ args.f <= args.src_clip.num_frames
     /\ args.timecodes_file.given =>
            Len(args.timecodes_file.lines) = args.src_clip.num_frames + 1)
        => ret.err # "IndexError"

\* C10 as stated: on a constant-rate clip the timestamp f2ts returns has
\* minutes below 60 and, after rounding to the precision, seconds below 60.
C10_AsStated ==
    (pc = "done" /\ args.src_clip.fps # VfrFps /\ ret.err = "none") =>
        /\ ret.ts.m < 60
        /\ ret.ts.sec < 60

====
